---- MODULE Spec2Model ----
(***************************************************************************)
(* The lexical review-scoring engine of src/main.py: the normalizer, the   *)
(* adjective lexicon and its expansion, the sentence scorer, the review    *)
(* loader/segmenter, the dimension analyzer and the score aggregator.      *)
(*                                                                         *)
(* Strings are TLA+ strings; a character is a string of length one.        *)
(* Characters outside ASCII are written with stand-ins:                    *)
(*     "@" a-acute   "&" e-acute   "%" i-acute   "#" o-acute               *)
(*     "$" c-cedilla                                                       *)
(*     "^" U+0301 combining acute  "~" U+0327 combining cedilla            *)
(* Python indices are 0-based, TLA+ sequences 1-based: hay[i:j] is         *)
(* SubSeq(hay, i + 1, j).                                                  *)
(***************************************************************************)
EXTENDS Integers, Sequences, FiniteSets

VARIABLES ADJ_IDX,   \* the module-level expanded adjective index (line 155)
          fn,        \* the tool function called last ("" before any call)
          args,      \* its arguments
          ret,       \* the value it returned
          raised     \* the exception that left it ("" when it returned)

vars == <<ADJ_IDX, fn, args, ret, raised>>

Max(a, b) == IF a >= b THEN a ELSE b

Min(a, b) == IF a <= b THEN a ELSE b

Abs(a) == IF a < 0 THEN -a ELSE a

\* Python's `needle in hay` on strings.
Contains(hay, needle) ==
  \E i \in 0..(Len(hay) - Len(needle)) : SubSeq(hay, i + 1, i + Len(needle)) = needle

\* Python's str.endswith.
EndsWith(s, suffix) ==
  /\ Len(suffix) <= Len(s)
  /\ SubSeq(s, Len(s) - Len(suffix) + 1, Len(s)) = suffix

\* s[:-n] for 0 < n <= len(s).
DropLast(s, n) == SubSeq(s, 1, Len(s) - n)

Reverse(seq) == [i \in 1..Len(seq) |-> seq[Len(seq) + 1 - i]]

---------------------------------------------------------------------------
(* _normalize, lines 16-36 *)

UpperCase == "ABCDEFGHIJKLMNOPQRSTUVWXYZ"

LowerCase == "abcdefghijklmnopqrstuvwxyz"

\* str.lower() on one character.
Lower(c) ==
  IF \E i \in 1..Len(UpperCase) : SubSeq(UpperCase, i, i) = c
  THEN LET i == CHOOSE i \in 1..Len(UpperCase) : SubSeq(UpperCase, i, i) = c
       IN SubSeq(LowerCase, i, i)
  ELSE c

\* unicodedata.normalize("NFD", c) on one character: a precomposed letter
\* becomes its base letter followed by the combining mark.
NFD(c) ==
  CASE c = "@" -> "a^"
    [] c = "&" -> "e^"
    [] c = "%" -> "i^"
    [] c = "#" -> "o^"
    [] c = "$" -> "c~"
    [] OTHER -> c

\* unicodedata.category(c) == "Mn"
IsMn(c) == c \in {"^", "~"}

RECURSIVE MapChars(_, _)
\* "".join(step(c) for c in s), with step one of the three steps below; the
\* string is mapped half by half.
MapChars(s, step) ==
  IF s = "" THEN ""
  ELSE IF Len(s) = 1
       THEN CASE step = "lower" -> Lower(s)
              [] step = "nfd" -> NFD(s)
              [] step = "strip_mn" -> IF IsMn(s) THEN "" ELSE s
       ELSE LET half == Len(s) \div 2
            IN MapChars(SubSeq(s, 1, half), step)
               \o MapChars(SubSeq(s, half + 1, Len(s)), step)

_normalize(s) == MapChars(MapChars(MapChars(s, "lower"), "nfd"), "strip_mn")

---------------------------------------------------------------------------
(* The lexicon, lines 87-184 *)

ADJ_SCALE ==
  [score \in 1..5 |->
     CASE score = 1 -> <<"horrivel", "nojento", "terrivel">>
       [] score = 2 -> <<"ruim", "desagradavel", "ofensivo">>
       [] score = 3 -> <<"mediano", "sem graca", "irrelevante">>
       [] score = 4 -> <<"bom", "agradavel", "satisfatorio">>
       [] score = 5 -> <<"incrivel", "impressionante", "surpreendente">>]

FOOD_KW ==
  <<"comida", "pastel", "sanduiche", "sanduiches", "frango", "hamburguer",
    "hamburgueres", "cafe", "doces", "donuts", "pratos", "saladas", "sopas",
    "cookie", "cookies">>

SERVICE_KW ==
  <<"atendimento", "funcionarios", "garcons", "servico", "equipe", "baristas",
    "garcom", "espera">>

RECURSIVE Uniq(_, _)
\* The elements of seq not in seen, each once, in first-seen order
\* (the seen/uniq loop of lines 145-150).
Uniq(seq, seen) ==
  IF seq = <<>> THEN <<>>
  ELSE IF Head(seq) \in seen THEN Uniq(Tail(seq), seen)
       ELSE <<Head(seq)>> \o Uniq(Tail(seq), seen \cup {Head(seq)})

\* The strings added to `variants`, in the order the code adds them.
VariantsAdded(a) ==
  IF a = "bom" THEN <<a, "boa", "bons", "boas">>
  ELSE IF a = "ruim" THEN <<a, "ruins">>
  ELSE <<a>>
       \o (IF EndsWith(a, "o")
           THEN LET stem == DropLast(a, 1)
                IN <<stem \o "a", stem \o "os", stem \o "as">>
           ELSE <<>>)
       \o (IF EndsWith(a, "ivel") THEN <<DropLast(a, 4) \o "iveis">> ELSE <<>>)
       \o (IF EndsWith(a, "vel") THEN <<DropLast(a, 3) \o "veis">> ELSE <<>>)
       \o (IF EndsWith(a, "el") THEN <<DropLast(a, 2) \o "eis">> ELSE <<>>)
       \o (IF EndsWith(a, "ente") \/ EndsWith(a, "ante") THEN <<a \o "s">> ELSE <<>>)
       \o (IF EndsWith(a, "ivo")
           THEN LET stem == DropLast(a, 3)
                IN <<stem \o "iva", stem \o "ivos", stem \o "ivas">>
           ELSE <<>>)

\* list(variants): the set's elements in an order that the interpreter's
\* string hashing fixes per process. hash_order stands for that order: 0 lists
\* the set as it was filled, 1 the other way round.
HashOrders == {0, 1}

_expand_adj_variants(adj, hash_order) ==
  LET filled == Uniq(VariantsAdded(adj), {})
  IN IF hash_order = 0 THEN filled ELSE Reverse(filled)

RECURSIVE Bucket(_, _)
\* bucket after the loop of lines 142-143 over adjs.
Bucket(adjs, hash_order) ==
  IF adjs = <<>> THEN <<>>
  ELSE _expand_adj_variants(Head(adjs), hash_order) \o Bucket(Tail(adjs), hash_order)

_build_adj_index(scale, hash_order) ==
  [score \in DOMAIN scale |-> Uniq(Bucket(scale[score], hash_order), {})]

---------------------------------------------------------------------------
(* _score_for_sentence, lines 187-241 *)

\* hay.find(needle, i): the least index >= i where needle starts, or -1.
Find(hay, needle, i) ==
  LET found == {j \in i..(Len(hay) - Len(needle)) :
                  SubSeq(hay, j + 1, j + Len(needle)) = needle}
  IN IF found = {} THEN -1
     ELSE CHOOSE j \in found : \A k \in found : j <= k

RECURSIVE PositionsFrom(_, _, _)
\* The while loop of lines 214-219, entered with index i: the midpoints
\* appended to acc from there on.
PositionsFrom(hay, needle, i) ==
  LET j == Find(hay, needle, i)
  IN IF j = -1 THEN <<>>
     ELSE <<j + (Len(needle) \div 2)>>
          \o PositionsFrom(hay, needle, j + Max(1, Len(needle)))

_positions(hay, needle) == PositionsFrom(hay, needle, 0)

RECURSIVE TargetPos(_, _)
\* target_pos after the loop of lines 223-224 over target_terms.
TargetPos(s, target_terms) ==
  IF target_terms = <<>> THEN <<>>
  ELSE _positions(s, Head(target_terms)) \o TargetPos(s, Tail(target_terms))

\* min(abs(apos - tpos) for tpos in target_pos), target_pos not empty.
NearestDist(apos, target_pos) ==
  LET ds == {Abs(apos - target_pos[k]) : k \in 1..Len(target_pos)}
  IN CHOOSE d \in ds : \A e \in ds : d <= e

\* A comparison that looks at the distance alone and lets a later candidate
\* at the same distance replace the best one.
TupleLessOrSameDist(cand, best) == cand[1] <= best[1]

\* cand < best on the tuples (dist, -desired) of line 237.
TupleLess(cand, best) ==
  \/ cand[1] < best[1]
  \/ cand[1] = best[1] /\ cand[2] < best[2]

RECURSIVE VisitedFirstFormOnly(_, _, _)
\* A loop over the forms that stops at the first form found in the sentence.
VisitedFirstFormOnly(adjs, desired, s) ==
  IF adjs = <<>> THEN <<>>
  ELSE LET aposs == _positions(s, Head(adjs))
       IN IF aposs # <<>>
          THEN [k \in 1..Len(aposs) |-> <<desired, aposs[k]>>]
          ELSE VisitedFirstFormOnly(Tail(adjs), desired, s)

\* The pairs <<desired, apos>> the loop of lines 233-234 visits for one
\* score level, in its order: form by form, occurrence by occurrence.
RECURSIVE VisitedAtLevel(_, _, _)
VisitedAtLevel(adjs, desired, s) ==
  IF adjs = <<>> THEN <<>>
  ELSE LET aposs == _positions(s, Head(adjs))
       IN [k \in 1..Len(aposs) |-> <<desired, aposs[k]>>]
          \o VisitedAtLevel(Tail(adjs), desired, s)

\* The pairs the loops of lines 232-234 visit, over the levels in the order
\* given, when the index read at line 233 is idx.
RECURSIVE Visited(_, _, _)
Visited(idx, levels, s) ==
  IF levels = <<>> THEN <<>>
  ELSE VisitedAtLevel(idx[Head(levels)], Head(levels), s)
       \o Visited(idx, Tail(levels), s)

\* The loop state is [best, best_score]; None is <<>> for best and 0 for
\* best_score.
RECURSIVE Scan(_, _, _)
\* The body of the loops (lines 235-239) run over the pairs visited.
Scan(state, visited, target_pos) ==
  IF visited = <<>> THEN state
  ELSE LET desired == Head(visited)[1]
           apos == Head(visited)[2]
           dist == NearestDist(apos, target_pos)
           cand == <<dist, -desired>>
       IN IF state.best = <<>> \/ TupleLess(cand, state.best)
          THEN Scan([best |-> cand, best_score |-> desired], Tail(visited), target_pos)
          ELSE Scan(state, Tail(visited), target_pos)

\* A scorer that returns best_score as it stands, None (0) included.
ScoreOrNone(best_score) == best_score

\* best_score if best_score is not None else 3 (line 241)
ScoreOrNeutral(best_score) == IF best_score # 0 THEN best_score ELSE 3

\* The body of _score_for_sentence when the module global ADJ_IDX holds idx.
ScoreUnder(idx, sentence, target_terms) ==
  LET s == _normalize(sentence)
  IN IF ~ \E k \in 1..Len(target_terms) : Contains(s, target_terms[k]) THEN 3
     ELSE LET target_pos == TargetPos(s, target_terms)
          IN IF target_pos = <<>> THEN 3
             ELSE LET final == Scan([best |-> <<>>, best_score |-> 0],
                                    Visited(idx, <<5, 4, 3, 2, 1>>, s), target_pos)
                  IN ScoreOrNeutral(final.best_score)

_score_for_sentence(sentence, target_terms) ==
  ScoreUnder(ADJ_IDX, sentence, target_terms)

---------------------------------------------------------------------------
(* The calls of the scorer *)

\* The words a scored sentence is made of: a keyword of each dimension,
\* adjectives of levels 3, 5 and 2 (one with an accent and a capital, one that
\* contains a form of level 4), a word of neither kind, a plural of level 4
\* that contains its singular, and a short adjective of level 2.
WordPool ==
  <<"comida", "equipe", "mediano", "Incr%vel", "desagrad@vel", "e", "boas", "ruim">>

\* The most words in a scored sentence.
MaxWords == 3

RECURSIVE Join(_)
\* " ".join(words)
Join(words) ==
  IF words = <<>> THEN ""
  ELSE IF Len(words) = 1 THEN Head(words)
       ELSE Head(words) \o " " \o Join(Tail(words))

Sentences(maxWords) ==
  {Join([i \in 1..n |-> WordPool[ws[i]]]) :
     n \in 1..maxWords, ws \in [1..maxWords -> 1..Len(WordPool)]}

Init ==
  /\ \E hash_order \in HashOrders : ADJ_IDX = _build_adj_index(ADJ_SCALE, hash_order)
  /\ fn = ""
  /\ args = <<>>
  /\ ret = <<>>
  /\ raised = ""

\* Some caller scores a sentence against a dimension's keywords.
ScoreSentence ==
  /\ fn = ""
  /\ \E sentence \in Sentences(MaxWords), target_terms \in {FOOD_KW, SERVICE_KW} :
       /\ fn' = "_score_for_sentence"
       /\ args' = <<sentence, target_terms>>
       /\ ret' = _score_for_sentence(sentence, target_terms)
       /\ raised' = ""
  /\ UNCHANGED ADJ_IDX

\* The caller takes the result; the functions keep nothing between calls.
Return ==
  /\ fn # ""
  /\ fn' = ""
  /\ args' = <<>>
  /\ ret' = <<>>
  /\ raised' = ""
  /\ UNCHANGED ADJ_IDX

NextScore == ScoreSentence \/ Return

SpecScore == Init /\ [][NextScore]_vars

---------------------------------------------------------------------------
(* What the claims about the scorer speak of, stated without the scan *)

\* Every index at which needle starts in hay.
Starts(hay, needle) ==
  {i \in 0..(Len(hay) - Len(needle)) : SubSeq(hay, i + 1, i + Len(needle)) = needle}

\* The midpoints of every occurrence of every term.
Midpoints(hay, terms) ==
  UNION {{i + (Len(terms[k]) \div 2) : i \in Starts(hay, terms[k])} : k \in 1..Len(terms)}

\* Every (level, form, occurrence) candidate, with its distance to the nearest
\* target-keyword midpoint.
Candidates(sentence, target_terms) ==
  LET s == _normalize(sentence)
      tmids == Midpoints(s, target_terms)
      OfForm(lvl, form) ==
        {[level |-> lvl, form |-> form, apos |-> apos,
          dist |-> CHOOSE d \in {Abs(apos - t) : t \in tmids} :
                     \A t \in tmids : d <= Abs(apos - t)] :
           apos \in Midpoints(s, <<form>>)}
  IN UNION {UNION {OfForm(lvl, ADJ_IDX[lvl][k]) : k \in 1..Len(ADJ_IDX[lvl])} :
              lvl \in 1..5}

KeywordOccurs(sentence, target_terms) ==
  LET s == _normalize(sentence)
  IN \E k \in 1..Len(target_terms) : Contains(s, target_terms[k])

AdjectiveOccurs(sentence) ==
  LET s == _normalize(sentence)
  IN \E lvl \in 1..5 : \E k \in 1..Len(ADJ_IDX[lvl]) : Contains(s, ADJ_IDX[lvl][k])

Scored == fn = "_score_for_sentence"

\* C1: when a target keyword and an adjective form occur in the sentence, the
\* score returned is the level of a candidate that no candidate beats: none is
\* nearer to a keyword, and none at the same distance has a higher level.
C1_NearestThenHighest ==
  (Scored /\ KeywordOccurs(args[1], args[2]) /\ AdjectiveOccurs(args[1])) =>
    LET cands == Candidates(args[1], args[2])
    IN \E c \in cands :
         /\ ret = c.level
         /\ \A d \in cands :
              c.dist < d.dist \/ (c.dist = d.dist /\ c.level >= d.level)

\* C1 witness: adjectives of levels 3 and 5 at the same, smallest distance
\* from the keyword, scored 5.
C1_Witness ==
  /\ Scored
  /\ KeywordOccurs(args[1], args[2])
  /\ LET cands == Candidates(args[1], args[2])
     IN \E c, d \in cands :
          /\ c.level = 5 /\ d.level = 3 /\ c.dist = d.dist
          /\ \A e \in cands : c.dist <= e.dist
  /\ ret = 5

\* C2: the score is the neutral 3 when no target keyword occurs in the
\* sentence, whatever adjectives it has, and when a keyword occurs but no
\* adjective form does.
C2_NeutralWithoutKeywordOrAdjective ==
  (Scored /\ (~ KeywordOccurs(args[1], args[2]) \/ ~ AdjectiveOccurs(args[1]))) =>
    ret = 3

\* C2 witness: a sentence with a level-2 adjective and no food keyword,
\* scored 3 against the food keywords.
C2_Witness ==
  /\ Scored
  /\ args[2] = FOOD_KW
  /\ ~ KeywordOccurs(args[1], args[2])
  /\ Contains(_normalize(args[1]), "desagradavel")
  /\ ret = 3

\* A sentence with a keyword and no adjective form, scored 3.
KeywordAloneScoredNeutral ==
  /\ Scored
  /\ KeywordOccurs(args[1], args[2])
  /\ ~ AdjectiveOccurs(args[1])
  /\ ret = 3

---------------------------------------------------------------------------
(* analyze_reviews, lines 300-345 *)

\* any(k in _normalize(sent) for k in kw)
AnyKeyword(sent, kw) ==
  LET s == _normalize(sent)
  IN \E k \in 1..Len(kw) : Contains(s, kw[k])

\* A guard that forgets `first is None`: every relevant sentence is scored.
TakesEveryRelevant(first, sent, kw) == AnyKeyword(sent, kw)

\* first is None and any(k in _normalize(sent) for k in kw) (lines 328, 330);
\* None is 0.
TakesFirstRelevant(first, sent, kw) == first = 0 /\ AnyKeyword(sent, kw)

RECURSIVE AnalyzeScan(_, _)
\* The loop of lines 327-333 over the sentences left, from the loop state
\* [first_food, first_service].
AnalyzeScan(state, sentences) ==
  IF sentences = <<>> THEN state
  ELSE LET sent == Head(sentences)
           first_food == IF TakesFirstRelevant(state.first_food, sent, FOOD_KW)
                         THEN _score_for_sentence(sent, FOOD_KW)
                         ELSE state.first_food
           first_service == IF TakesFirstRelevant(state.first_service, sent, SERVICE_KW)
                            THEN _score_for_sentence(sent, SERVICE_KW)
                            ELSE state.first_service
           next == [first_food |-> first_food, first_service |-> first_service]
       IN IF first_food # 0 /\ first_service # 0 THEN next
          ELSE AnalyzeScan(next, Tail(sentences))

\* An analyzer that leaves a dimension it did not find at None.
NoDefault(first) == first

\* if first is None: first = 3 (lines 336-341)
DefaultNeutral(first) == IF first = 0 THEN 3 ELSE first

analyze_reviews(review_sentences) ==
  LET found == AnalyzeScan([first_food |-> 0, first_service |-> 0], review_sentences)
      food_scores == Append(<<>>, DefaultNeutral(found.first_food))
      service_scores == Append(<<>>, DefaultNeutral(found.first_service))
  IN [food_scores |-> food_scores, customer_service_scores |-> service_scores]

\* The sentences analysed: about food only (levels 3 and 5), about service
\* only, about both, and about neither.
AnalyzePool ==
  <<"Comida mediana", "A comida & incr%vel", "Atendimento ruim",
    "comida boa e equipe horr%vel", "ambiente agrad@vel">>

\* The most sentences in an analysed list.
MaxSentences == 3

SentenceLists(maxSentences) ==
  UNION {[1..n -> {AnalyzePool[k] : k \in 1..Len(AnalyzePool)}] : n \in 0..maxSentences}

\* Some caller analyses a list of sentences.
AnalyzeReviews ==
  /\ fn = ""
  /\ \E review_sentences \in SentenceLists(MaxSentences) :
       /\ fn' = "analyze_reviews"
       /\ args' = <<review_sentences>>
       /\ ret' = analyze_reviews(review_sentences)
       /\ raised' = ""
  /\ UNCHANGED ADJ_IDX

NextAnalyze == AnalyzeReviews \/ Return

SpecAnalyze == Init /\ [][NextAnalyze]_vars

Analyzed == fn = "analyze_reviews"

\* The index of the first sentence with a keyword of kw, 0 when there is none.
FirstRelevant(sentences, kw) ==
  LET relevant == {i \in 1..Len(sentences) : AnyKeyword(sentences[i], kw)}
  IN IF relevant = {} THEN 0
     ELSE CHOOSE i \in relevant : \A j \in relevant : i <= j

\* The score of the first sentence relevant to kw, 3 when there is none.
ScoreOfFirstRelevant(sentences, kw) ==
  LET i == FirstRelevant(sentences, kw)
  IN IF i = 0 THEN 3 ELSE _score_for_sentence(sentences[i], kw)

\* C3: the food score is the scorer's result on the first sentence, in list
\* order, with a food keyword, and the service score its result on the first
\* sentence with a service keyword; a dimension no sentence mentions gets 3.
\* Sentences after the first relevant one do not change the score.
C3_FirstRelevantSentenceDecides ==
  Analyzed =>
    /\ ret.food_scores[1] = ScoreOfFirstRelevant(args[1], FOOD_KW)
    /\ ret.customer_service_scores[1] = ScoreOfFirstRelevant(args[1], SERVICE_KW)

\* C3 witness: a later sentence with a food keyword would score differently
\* from the first one, and the first one's score is returned; one sentence
\* decides both dimensions.
C3_Witness ==
  /\ Analyzed
  /\ \E i, j \in 1..Len(args[1]) :
       /\ i = FirstRelevant(args[1], FOOD_KW)
       /\ i < j
       /\ AnyKeyword(args[1][j], FOOD_KW)
       /\ _score_for_sentence(args[1][j], FOOD_KW) # _score_for_sentence(args[1][i], FOOD_KW)
       /\ ret.food_scores[1] = _score_for_sentence(args[1][i], FOOD_KW)
       /\ FirstRelevant(args[1], SERVICE_KW) = j

\* C4: the result has exactly the keys food_scores and
\* customer_service_scores, each a list of one integer in 1..5, for every
\* list of sentences, the empty one included.
C4_OneScorePerDimension ==
  Analyzed =>
    /\ DOMAIN ret = {"food_scores", "customer_service_scores"}
    /\ Len(ret.food_scores) = 1
    /\ Len(ret.customer_service_scores) = 1
    /\ ret.food_scores[1] \in 1..5
    /\ ret.customer_service_scores[1] \in 1..5

\* C4 witness: the empty list gives one neutral score per dimension.
C4_Witness ==
  /\ Analyzed
  /\ args[1] = <<>>
  /\ ret = [food_scores |-> <<3>>, customer_service_scores |-> <<3>>]

---------------------------------------------------------------------------
(* calculate_overall_score, lines 350-382 *)

(***************************************************************************)
(* The rating is a float with three decimals; the model holds it in        *)
(* thousandths (5.367 is 5367). With S(n) the floor of sqrt(n) * 10^6,     *)
(*   total * 10 / (N * sqrt(125))                                          *)
(*     = sum(|f| * sqrt(s)) * 10 / (N * sqrt(125))                         *)
(*     = sum(|f| * sqrt(125 * s)) / (12.5 * N)                             *)
(* which in thousandths is sum(|f| * S(125 * s)) / (12500 * N), rounded to *)
(* the nearest integer as the format "{:.3f}" rounds.                      *)
(***************************************************************************)

\* The integer part of the square root of n.
ISqrt(n) == CHOOSE q \in 0..n : q * q <= n /\ (q + 1) * (q + 1) > n

RECURSIVE SqrtDigits(_, _, _)
\* The square root continued by `digits` decimal digits, from its first
\* digits q and the remainder r left under them.
SqrtDigits(q, r, digits) ==
  IF digits = 0 THEN q
  ELSE LET d == CHOOSE d \in 0..9 :
                  /\ 20 * q * d + d * d <= 100 * r
                  /\ d = 9 \/ 20 * q * (d + 1) + (d + 1) * (d + 1) > 100 * r
       IN SqrtDigits(10 * q + d, 100 * r - (20 * q * d + d * d), digits - 1)

\* math.sqrt(n) in millionths, n >= 0.
SqrtMicro(n) == SqrtDigits(ISqrt(n), n - ISqrt(n) * ISqrt(n), 6)

RECURSIVE TotalMicro(_, _, _)
\* The loop of lines 376-379 over the first N pairs: the sum of
\* |f| * sqrt(125 * s) in millionths.
TotalMicro(food_scores, customer_service_scores, N) ==
  IF N = 0 THEN 0
  ELSE TotalMicro(food_scores, customer_service_scores, N - 1)
       + Abs(food_scores[N]) * SqrtMicro(125 * customer_service_scores[N])

\* A guard that returns 0.000 only when both lists are empty.
BothEmpty(food_scores, customer_service_scores) ==
  food_scores = <<>> /\ customer_service_scores = <<>>

\* not food_scores or not customer_service_scores (line 372)
EitherEmpty(food_scores, customer_service_scores) ==
  food_scores = <<>> \/ customer_service_scores = <<>>

\* A score that is not averaged over the N pairs.
UnaveragedThousandths(totalMicro, N) == (2 * totalMicro + 12500) \div 25000

\* float(f"{score:.3f}") of score = total * 10.0 / (N * math.sqrt(125.0))
\* (lines 380-381), in thousandths.
RoundedThousandths(totalMicro, N) == (2 * totalMicro + 12500 * N) \div (25000 * N)

\* The outcome of a call: the value returned, or the exception raised.
calculate_overall_score(restaurant_name, food_scores, customer_service_scores) ==
  IF EitherEmpty(food_scores, customer_service_scores)
  THEN [ret |-> [name \in {restaurant_name} |-> 0], raised |-> ""]
  ELSE LET N == Min(Len(food_scores), Len(customer_service_scores))
       IN IF N = 0 THEN [ret |-> <<>>, raised |-> "ZeroDivisionError"]
          ELSE IF \E i \in 1..N : customer_service_scores[i] < 0
               THEN [ret |-> <<>>, raised |-> "ValueError"]  \* math.sqrt of a negative
               ELSE LET total == TotalMicro(food_scores, customer_service_scores, N)
                    IN [ret |-> [name \in {restaurant_name} |-> RoundedThousandths(total, N)],
                        raised |-> ""]

\* The scores handed to the aggregator: the scale 1..5 and, since the code
\* does not validate them, a negative one.
ScoreValues == {-1} \cup (1..5)

\* The most scores in a list handed to the aggregator.
MaxScores == 2

ScoreLists(maxScores) == UNION {[1..n -> ScoreValues] : n \in 0..maxScores}

\* Some caller aggregates two lists of scores.
CalculateOverallScore ==
  /\ fn = ""
  /\ \E food_scores \in ScoreLists(MaxScores),
        customer_service_scores \in ScoreLists(MaxScores) :
       LET out == calculate_overall_score("Bob's", food_scores, customer_service_scores)
       IN /\ fn' = "calculate_overall_score"
          /\ args' = <<"Bob's", food_scores, customer_service_scores>>
          /\ ret' = out.ret
          /\ raised' = out.raised
  /\ UNCHANGED ADJ_IDX

NextOverall == CalculateOverallScore \/ Return

SpecOverall == Init /\ [][NextOverall]_vars

Calculated == fn = "calculate_overall_score"

InScale(scores) == \A i \in 1..Len(scores) : scores[i] \in 1..5

\* C5: the rating is exactly 0.000, under the restaurant's name, whenever the
\* food list or the service list is empty, whatever the other list holds,
\* and nothing is raised.
C5_EmptyListGivesZero ==
  (Calculated /\ (args[2] = <<>> \/ args[3] = <<>>)) =>
    /\ raised = ""
    /\ ret = [name \in {args[1]} |-> 0]

\* C5 witness: an empty food list against a service list that is not empty.
C5_Witness ==
  /\ Calculated
  /\ args[2] = <<>>
  /\ Len(args[3]) = MaxScores
  /\ raised = ""
  /\ ret[args[1]] = 0

\* C6: for lists that are not empty and hold scores in 1..5 the rating lies
\* in [0, 10], and it is 10 when every pair used is (5, 5).
C6_RatingWithinZeroAndTen ==
  (Calculated /\ args[2] # <<>> /\ args[3] # <<>> /\ InScale(args[2]) /\ InScale(args[3])) =>
    /\ raised = ""
    /\ ret[args[1]] >= 0
    /\ ret[args[1]] <= 10000
    /\ (\A i \in 1..Min(Len(args[2]), Len(args[3])) : args[2][i] = 5 /\ args[3][i] = 5)
         => ret[args[1]] = 10000

\* C6 witness: every pair used is (5, 5), a score past the pairs is not, and
\* the rating is 10.000.
C6_Witness ==
  /\ Calculated
  /\ Len(args[2]) = 1 /\ args[2][1] = 5
  /\ Len(args[3]) = MaxScores /\ args[3][1] = 5 /\ args[3][MaxScores] = 1
  /\ ret[args[1]] = 10000

---------------------------------------------------------------------------
(* fetch_restaurant_data, lines 246-295 *)

\* str.isspace on one character (the whitespace str.strip() removes).
IsSpace(c) == c \in {" ", "\t"}

RECURSIVE LStrip(_)
LStrip(s) ==
  IF s # "" /\ IsSpace(SubSeq(s, 1, 1)) THEN LStrip(SubSeq(s, 2, Len(s))) ELSE s

RECURSIVE RStrip(_)
RStrip(s) ==
  IF s # "" /\ IsSpace(SubSeq(s, Len(s), Len(s))) THEN RStrip(DropLast(s, 1)) ELSE s

\* s.strip()
Strip(s) == RStrip(LStrip(s))

\* ch in ".!?"
IsTerminator(c) == c \in {".", "!", "?"}

RECURSIVE RStripTerminators(_)
\* s.rstrip(".!?")
RStripTerminators(s) ==
  IF s # "" /\ IsTerminator(SubSeq(s, Len(s), Len(s)))
  THEN RStripTerminators(DropLast(s, 1))
  ELSE s

RECURSIVE RemoveSpaces(_)
\* s.replace(" ", "")
RemoveSpaces(s) ==
  IF s = "" THEN ""
  ELSE (IF SubSeq(s, 1, 1) = " " THEN "" ELSE SubSeq(s, 1, 1))
       \o RemoveSpaces(SubSeq(s, 2, Len(s)))

\* A condition without the space-insensitive containment.
MatchesWithoutSpaceRule(q, n) == q = n \/ Contains(n, q) \/ Contains(q, n)

\* The condition of line 267 on the normalized query q and key n.
Matches(q, n) ==
  \/ q = n
  \/ Contains(n, q)
  \/ Contains(q, n)
  \/ Contains(RemoveSpaces(n), RemoveSpaces(q))

(* The corpus is the dict _load_reviews returns: a sequence, in insertion  *)
(* order, of [name, review] with distinct names. A chosen name is held as  *)
(* its index in the corpus, None as 0.                                     *)

RECURSIVE LastFrom(_, _, _, _)
\* A loop without its break: the last key that matches is kept.
LastFrom(reviews, q, i, chosen) ==
  IF i > Len(reviews) THEN chosen
  ELSE LastFrom(reviews, q, i + 1,
                IF Matches(q, _normalize(reviews[i].name)) THEN i ELSE chosen)

ChosenWithoutBreak(reviews, q) == LastFrom(reviews, q, 1, 0)

RECURSIVE FirstFrom(_, _, _)
\* The loop of lines 265-269, entered at key i.
FirstFrom(reviews, q, i) ==
  IF i > Len(reviews) THEN 0
  ELSE IF Matches(q, _normalize(reviews[i].name)) THEN i
       ELSE FirstFrom(reviews, q, i + 1)

\* chosen_name after the loop of lines 265-269.
ChosenByLoop(reviews, q) == FirstFrom(reviews, q, 1)

RECURSIVE FallbackFrom(_, _, _)
\* The loop of lines 272-275, entered at key i.
FallbackFrom(reviews, q, i) ==
  IF i > Len(reviews) THEN 0
  ELSE IF Contains(_normalize(reviews[i].name), q) THEN i
       ELSE FallbackFrom(reviews, q, i + 1)

RECURSIVE SplitScan(_, _, _)
\* The loop of lines 283-289 over the characters left, from the loop state
\* acc and sentences; gives the state after it.
SplitScan(raw, acc, sentences) ==
  IF raw = "" THEN [acc |-> acc, sentences |-> sentences]
  ELSE LET ch == SubSeq(raw, 1, 1)
           rest == SubSeq(raw, 2, Len(raw))
           acc2 == acc \o ch
       IN IF IsTerminator(ch)
          THEN LET frag == Strip(acc2)
               IN SplitScan(rest, "",
                            IF frag # "" THEN Append(sentences, frag) ELSE sentences)
          ELSE SplitScan(rest, acc2, sentences)

RECURSIVE StripEach(_)
\* [s.strip().rstrip(".!?") for s in sentences if s.strip()] (line 294)
StripEach(sentences) ==
  IF sentences = <<>> THEN <<>>
  ELSE (IF Strip(Head(sentences)) # ""
        THEN <<RStripTerminators(Strip(Head(sentences)))>>
        ELSE <<>>)
       \o StripEach(Tail(sentences))

\* A split that keeps the terminated sentences only.
SplitTerminatedOnly(raw) == StripEach(SplitScan(raw, "", <<>>).sentences)

\* The sentences of a raw review (lines 280-294).
SplitSentences(raw) ==
  LET end == SplitScan(raw, "", <<>>)
      sentences == IF Strip(end.acc) # ""
                   THEN Append(end.sentences, Strip(end.acc))
                   ELSE end.sentences
  IN StripEach(sentences)

\* A miss reported under the normalized query.
NotFoundUnderNormalizedName(restaurant_name, q) == [name \in {q} |-> <<>>]

\* return {restaurant_name: []} (line 277)
NotFound(restaurant_name, q) == [name \in {restaurant_name} |-> <<>>]

\* The outcome of a call with the file restaurantes.txt as `file` shows it:
\* the value returned, or the exception raised.
fetch_restaurant_data(restaurant_name, file) ==
  IF ~ file.exists THEN [ret |-> <<>>, raised |-> "FileNotFoundError"]
  ELSE LET reviews == file.reviews
           q == _normalize(restaurant_name)
           looped == ChosenByLoop(reviews, q)
           chosen_name == IF looped = 0 THEN FallbackFrom(reviews, q, 1) ELSE looped
       IN IF chosen_name = 0
          THEN [ret |-> NotFound(restaurant_name, q), raised |-> ""]
          ELSE [ret |-> [name \in {reviews[chosen_name].name} |->
                           SplitSentences(reviews[chosen_name].review)],
                raised |-> ""]

\* The restaurant names of a corpus: one inside another, one with a capital,
\* one with a space and one with a tab.
NamePool == {"ab", "Abc", "a b", "a\tb"}

\* The characters of a review text.
ReviewChars == <<"a", "b", " ", ".", "?">>

\* The longest review text of a corpus with one restaurant.
MaxReviewLen == 3

\* The most restaurants in a corpus.
MaxKeys == 2

\* The review texts of at most maxLen characters; _load_reviews strips them.
Reviews(maxLen) ==
  LET texts == UNION {[1..n -> 1..Len(ReviewChars)] : n \in 0..maxLen}
      Text(t) == LET RECURSIVE From(_)
                     From(i) == IF i > Len(t) THEN "" ELSE ReviewChars[t[i]] \o From(i + 1)
                 IN From(1)
  IN {r \in {Text(t) : t \in texts} : Strip(r) = r}

\* The review texts of a corpus with several restaurants.
ShortReviews == {"", "a. b"}

Corpora(maxKeys, maxLen) ==
  {<<[name |-> n, review |-> r]>> : n \in NamePool, r \in Reviews(maxLen)}
  \cup {c \in UNION {[1..k -> [name : NamePool, review : ShortReviews]] : k \in 2..maxKeys} :
          \A i, j \in 1..Len(c) : c[i].name = c[j].name => i = j}

Files(maxKeys, maxLen) ==
  {[exists |-> FALSE, reviews |-> <<>>]}
  \cup {[exists |-> TRUE, reviews |-> c] : c \in Corpora(maxKeys, maxLen)}

\* The names asked for: a key as it is, one differing by case and a space,
\* one with a tab, one that contains keys, and one that matches nothing.
QueryPool == {"ab", "A b", "a\tb", "abcd", "x"}

\* Some caller asks for a restaurant's sentences; the file is read anew.
FetchRestaurantData ==
  /\ fn = ""
  /\ \E restaurant_name \in QueryPool, file \in Files(MaxKeys, MaxReviewLen) :
       LET out == fetch_restaurant_data(restaurant_name, file)
       IN /\ fn' = "fetch_restaurant_data"
          /\ args' = <<restaurant_name, file>>
          /\ ret' = out.ret
          /\ raised' = out.raised
  /\ UNCHANGED ADJ_IDX

NextFetch == FetchRestaurantData \/ Return

SpecFetch == Init /\ [][NextFetch]_vars

Next == ScoreSentence \/ AnalyzeReviews \/ CalculateOverallScore \/ FetchRestaurantData \/ Return

Spec == Init /\ [][Next]_vars

---------------------------------------------------------------------------
(* What the claims about the loader speak of *)

\* A call that found the file.
Fetched == fn = "fetch_restaurant_data" /\ args[2].exists

Corpus == args[2].reviews

Query == _normalize(args[1])

KeyNorm(i) == _normalize(Corpus[i].name)

RECURSIVE Without(_, _)
\* s with every character of the set drop removed.
Without(s, drop) ==
  IF s = "" THEN ""
  ELSE (IF SubSeq(s, 1, 1) \in drop THEN "" ELSE SubSeq(s, 1, 1))
       \o Without(SubSeq(s, 2, Len(s)), drop)

\* The rule by which key n matches query q: 1 equality, 2 containment in
\* either direction, 3 containment with the spaces removed, 4 none.
RuleOf(q, n) ==
  IF q = n THEN 1
  ELSE IF Contains(n, q) \/ Contains(q, n) THEN 2
  ELSE IF Contains(Without(n, {" "}), Without(q, {" "})) THEN 3
  ELSE 4

Matching == {i \in 1..Len(Corpus) : RuleOf(Query, KeyNorm(i)) < 4}

FirstMatching == CHOOSE i \in Matching : \A j \in Matching : i <= j

\* The result for key i: its name with the sentences of its review.
ResultFor(i) == [name \in {Corpus[i].name} |-> SplitSentences(Corpus[i].review)]

\* C7 as claimed: among the keys that match, one matching by the most
\* preferred rule is returned, so a key equal to the query wins over an
\* earlier key that only contains it.
C7_RulePreferenceDecides ==
  (Fetched /\ Matching # {}) =>
    \E i \in Matching :
      /\ ret = ResultFor(i)
      /\ \A j \in Matching : RuleOf(Query, KeyNorm(i)) <= RuleOf(Query, KeyNorm(j))

\* C7 as amended: the corpus order decides, not the rule. A key equal to the
\* query after normalization is the one returned exactly when no earlier key
\* matches by any rule.
C7_CorpusOrderDecides ==
  Fetched =>
    \A i \in 1..Len(Corpus) :
      KeyNorm(i) = Query =>
        (DOMAIN ret = {Corpus[i].name} <=> \A j \in 1..(i - 1) : j \notin Matching)

\* C7 witness: the second key equals the query, the first only contains it,
\* and the first is returned.
C7_Witness ==
  /\ Fetched
  /\ Len(Corpus) >= 2
  /\ KeyNorm(2) = Query
  /\ RuleOf(Query, KeyNorm(1)) = 2
  /\ ret = ResultFor(1)

C9_EmptyIffNoMatch ==
  Fetched =>
    /\ raised = ""
    /\ Matching # {} => ret = ResultFor(FirstMatching)
    /\ ret = [name \in {args[1]} |-> <<>>] <=> Matching = {}

\* C9 as amended: the first key that satisfies a rule is returned with its
\* sentences; {query: []} is returned whenever no key satisfies a rule, and
\* otherwise only when the first matching key is the query itself and its
\* review has no sentence; nothing is raised.
C9_FirstMatchOrEmpty ==
  Fetched =>
    /\ raised = ""
    /\ Matching # {} => ret = ResultFor(FirstMatching)
    /\ Matching = {} => ret = [name \in {args[1]} |-> <<>>]
    /\ ret = [name \in {args[1]} |-> <<>>] =>
         \/ Matching = {}
         \/ /\ Corpus[FirstMatching].name = args[1]
            /\ SplitSentences(Corpus[FirstMatching].review) = <<>>

\* C9 witness: a query that differs from its normalized form matches no key,
\* and comes back as given with no sentence.
C9_Witness ==
  /\ Fetched
  /\ Len(Corpus) >= 1
  /\ Matching = {}
  /\ args[1] # Query
  /\ ret = [name \in {args[1]} |-> <<>>]

\* Two keys match by different rules and the first one's sentences return.
FirstOfTwoMatchesReturned ==
  /\ Fetched
  /\ Matching = {1, 2}
  /\ RuleOf(Query, KeyNorm(1)) > RuleOf(Query, KeyNorm(2))
  /\ Corpus[1].review # Corpus[2].review
  /\ ret = ResultFor(1)

\* C10 as claimed: every sentence returned is non-empty, has no whitespace
\* at either end, and does not end with '.', '!' or '?'.
C10_SentencesTrimmedAndNonEmpty ==
  (Fetched /\ Matching # {}) =>
    LET sentences == ret[Corpus[FirstMatching].name]
    IN \A k \in 1..Len(sentences) :
         /\ sentences[k] # ""
         /\ ~ IsSpace(SubSeq(sentences[k], 1, 1))
         /\ ~ IsSpace(SubSeq(sentences[k], Len(sentences[k]), Len(sentences[k])))
         /\ ~ IsTerminator(SubSeq(sentences[k], Len(sentences[k]), Len(sentences[k])))

\* A sentence of a terminator alone comes back empty.
EmptySentenceReturned ==
  /\ Fetched
  /\ Matching # {}
  /\ \E k \in 1..Len(ret[Corpus[FirstMatching].name]) :
       ret[Corpus[FirstMatching].name][k] = ""

\* A sentence with a space before its terminator comes back ending in it.
TrailingSpaceReturned ==
  /\ Fetched
  /\ Matching # {}
  /\ \E k \in 1..Len(ret[Corpus[FirstMatching].name]) :
       LET sentence == ret[Corpus[FirstMatching].name][k]
       IN sentence # "" /\ SubSeq(sentence, Len(sentence), Len(sentence)) = " "

\* The review text of the key returned, and its sentences as returned.
Raw == Corpus[FirstMatching].review

Returned == ret[Corpus[FirstMatching].name]

\* The text after the last '.', '!' or '?' of raw (all of raw without one).
TrailingFragment(raw) ==
  LET ends == {i \in 1..Len(raw) : IsTerminator(SubSeq(raw, i, i))}
      last == IF ends = {} THEN 0 ELSE CHOOSE i \in ends : \A j \in ends : j <= i
  IN SubSeq(raw, last + 1, Len(raw))

RECURSIVE InSourceOrder(_, _, _)
\* The sentences lie in raw one after another, none overlapping the one
\* before it, the first of them at index from or later.
InSourceOrder(sentences, raw, from) ==
  IF sentences = <<>> THEN TRUE
  ELSE LET at == Find(raw, Head(sentences), from)
       IN /\ at # -1
          /\ InSourceOrder(Tail(sentences), raw, at + Len(Head(sentences)))

\* C11: a review that does not end with '.', '!' or '?' has its trailing
\* fragment, when that is not only whitespace, as the last sentence of the
\* list, and the sentences of every review come in the order of the text.
C11_TrailingFragmentIsLast ==
  (Fetched /\ Matching # {}) =>
    /\ InSourceOrder(Returned, Raw, 0)
    /\ (/\ Raw # ""
        /\ ~ IsTerminator(SubSeq(Raw, Len(Raw), Len(Raw)))
        /\ Strip(TrailingFragment(Raw)) # "")
       => /\ Returned # <<>>
          /\ Returned[Len(Returned)] = Strip(TrailingFragment(Raw))

\* C11 witness: a terminated sentence and then a fragment without terminator
\* come back as two sentences, the fragment last.
C11_Witness ==
  /\ Fetched
  /\ Matching # {}
  /\ Raw # TrailingFragment(Raw)
  /\ ~ IsTerminator(SubSeq(Raw, Len(Raw), Len(Raw)))
  /\ Len(Returned) = 2
  /\ Returned[1] # Returned[2]
  /\ Returned[2] = Strip(TrailingFragment(Raw))

---------------------------------------------------------------------------
(* The scorer and the order of the index *)

\* seq with its first element moved to the end.
Rotate(seq) == IF seq = <<>> THEN seq ELSE Tail(seq) \o <<Head(seq)>>

\* Other orders of the forms inside each level of idx: every level reversed,
\* every level rotated by one (the two generate every order), and the
\* indexes built under each order list(set) takes in the model.
Reorderings(idx) ==
  {[lvl \in DOMAIN idx |-> Reverse(idx[lvl])],
   [lvl \in DOMAIN idx |-> Rotate(idx[lvl])]}
  \cup {_build_adj_index(ADJ_SCALE, hash_order) : hash_order \in HashOrders}

\* C12: the score returned for a sentence and a keyword list is the score
\* the scorer gives under every other order of the forms inside the levels of
\* ADJ_IDX.
C12_ScoreIndependentOfFormOrder ==
  Scored =>
    \A idx \in Reorderings(ADJ_IDX) :
      /\ \A lvl \in 1..5 :
           {idx[lvl][k] : k \in 1..Len(idx[lvl])}
             = {ADJ_IDX[lvl][k] : k \in 1..Len(ADJ_IDX[lvl])}
      /\ ScoreUnder(idx, args[1], args[2]) = ret

\* C12 witness: two forms of one level occur at different distances from the
\* keyword, the farther one standing first in the level's list, a form of a
\* lower level is as near as the nearer of the two, and the level of the two
\* is the score.
C12_Witness ==
  /\ Scored
  /\ KeywordOccurs(args[1], args[2])
  /\ \E c, d, e \in Candidates(args[1], args[2]) :
       /\ c.level = d.level /\ c.form # d.form /\ c.dist < d.dist
       /\ \E i, j \in 1..Len(ADJ_IDX[c.level]) :
            i < j /\ ADJ_IDX[c.level][i] = d.form /\ ADJ_IDX[c.level][j] = c.form
       /\ e.level < c.level /\ e.dist = c.dist
       /\ ret = c.level

---------------------------------------------------------------------------
(* The scorer on a sentence with one keyword and one adjective *)

RECURSIVE Split(_)
\* s.split(" ")
Split(s) ==
  LET at == Find(s, " ", 0)
  IN IF at = -1 THEN <<s>>
     ELSE <<SubSeq(s, 1, at)>> \o Split(SubSeq(s, at + 2, Len(s)))

\* The forms of a level of ADJ_IDX, and the level of a form.
FormsOf(lvl) == {ADJ_IDX[lvl][k] : k \in 1..Len(ADJ_IDX[lvl])}

LevelOf(form) == CHOOSE lvl \in 1..5 : form \in FormsOf(lvl)

\* The words of the normalized sentence that are a form of some level.
AdjectiveWords(sentence) ==
  LET words == Split(_normalize(sentence))
  IN {k \in 1..Len(words) : \E lvl \in 1..5 : words[k] \in FormsOf(lvl)}

\* The occurrences (term, index) of the target terms in the sentence.
KeywordOccurrences(sentence, target_terms) ==
  LET s == _normalize(sentence)
  IN {<<k, i>> \in (1..Len(target_terms)) \X (0..Len(s)) : i \in Starts(s, target_terms[k])}

\* A call on a sentence with exactly one keyword occurrence and exactly one
\* word that is an adjective form.
OneKeywordOneAdjective ==
  /\ Scored
  /\ Cardinality(KeywordOccurrences(args[1], args[2])) = 1
  /\ Cardinality(AdjectiveWords(args[1])) = 1

\* The one adjective word of such a sentence.
TheAdjective ==
  LET words == Split(_normalize(args[1]))
  IN words[CHOOSE k \in AdjectiveWords(args[1]) : TRUE]

\* C13 as claimed: a sentence with exactly one keyword occurrence and exactly
\* one word that is an adjective form is scored that adjective's own level,
\* wherever the adjective stands; 'desagradavel' scores 2 before the keyword
\* as after it.
C13_SingleAdjectiveScoresOwnLevel ==
  OneKeywordOneAdjective => ret = LevelOf(TheAdjective)

\* The only adjective is 'desagradavel', it stands before the keyword, and
\* the score is 4, the level of 'agradavel'.
DesagradavelBeforeKeywordScoredFour ==
  /\ OneKeywordOneAdjective
  /\ TheAdjective = "desagradavel"
  /\ Find(_normalize(args[1]), "desagradavel", 0) < Find(_normalize(args[1]), "comida", 0)
  /\ ret = 4

\* The only adjective is 'desagradavel', it stands after the keyword, and the
\* score is 2.
DesagradavelAfterKeywordScoredTwo ==
  /\ OneKeywordOneAdjective
  /\ TheAdjective = "desagradavel"
  /\ Find(_normalize(args[1]), "comida", 0) # -1
  /\ Find(_normalize(args[1]), "comida", 0) < Find(_normalize(args[1]), "desagradavel", 0)
  /\ ret = 2

====
